---- MODULE Spec2Model ----
(***************************************************************************)
(* A model of crawl-ref/source/movement.cc: the player's move resolution   *)
(* (move_player_action), the lunge pre-step (_lunge_forward), the          *)
(* confusion and barbed-skin gates, the swap helper and the door commands.  *)
(* One call of a handler is one action; its inputs (direction, prompt       *)
(* answers, random draws, results of external collaborators) are drawn     *)
(* with \E.  The variable tr records what the last call did.               *)
(***************************************************************************)
EXTENDS Integers, Sequences, FiniteSets, TLC

VARIABLES you, grd, mons, env, crawl_state, tr, pc

vars == <<you, grd, mons, env, crawl_state, tr, pc>>

(***************************************************************************)
(* Bounds of the model.                                                    *)
(***************************************************************************)
GridW == 4
GridH == 2

(***************************************************************************)
(* Program constants.                                                      *)
(***************************************************************************)
tracer_range == 7
lunge_distance == 1
BASELINE_DELAY == 10

(***************************************************************************)
(* Geometry.  The in-bounds cells are 1..GridW x 1..GridH; every other     *)
(* coordinate is the map border, which is solid rock.                      *)
(***************************************************************************)
Cells == (1..GridW) \X (1..GridH)
NoCell == <<0, 0>>
origin == <<0, 0>>
Offsets == (-1..1) \X (-1..1)
Compass == Offsets \ {origin}
\* one_chance_in(3) kept the requested direction: no random offset was drawn.
Keep == <<2, 2>>

in_bounds(p) == p \in Cells
Add(p, d) == <<p[1] + d[1], p[2] + d[2]>>
Sub(p, q) == <<p[1] - q[1], p[2] - q[2]>>
Mul(d, k) == <<d[1] * k, d[2] * k>>
Abs(n) == IF n < 0 THEN -n ELSE n
Max(a, b) == IF a >= b THEN a ELSE b
grid_distance(p, q) == Max(Abs(p[1] - q[1]), Abs(p[2] - q[2]))

\* adjacent_iterator: the 3x3 square around a cell, row by row.
AdjOrder == << <<-1,-1>>, <<0,-1>>, <<1,-1>>, <<-1,0>>, <<0,0>>, <<1,0>>,
               <<-1,1>>, <<0,1>>, <<1,1>> >>

(***************************************************************************)
(* Terrain: the feature table of terrain.cc as far as this file reads it.  *)
(***************************************************************************)
Feats == {"floor", "shallow_water", "deep_water", "lava", "toxic_bog",
          "rock_wall", "stone_wall", "closed_door", "runed_door",
          "sealed_door", "open_door", "malign_gateway"}

GrdAt(g, p) == IF in_bounds(p) THEN g[p] ELSE "stone_wall"

feat_is_solid(f) == f \in {"rock_wall", "stone_wall", "closed_door", "runed_door",
                           "sealed_door", "malign_gateway"}
feat_is_traversable(f) == f \in {"floor", "open_door"}
feat_is_diggable(f) == f = "rock_wall"
feat_is_lava(f) == f = "lava"
is_feat_dangerous(f) == f \in {"lava", "deep_water"}
feat_is_closed_door(f) == f \in {"closed_door", "runed_door", "sealed_door"}
feat_is_door(f) == f \in {"closed_door", "runed_door", "sealed_door", "open_door"}

(***************************************************************************)
(* Monsters.  A monster is the record of what this file asks of it.        *)
(***************************************************************************)
Mon(att, vis, sub, fw, pt, beh, fear, type) ==
    [att |-> att, visible |-> vis, submerged |-> sub, firewood |-> fw,
     passthrough |-> pt, beholder |-> beh, fearmonger |-> fear, type |-> type]

\* mons[c] names the kind of monster at cell c; NoMon is the empty cell.
NoMon == "none"
MonsterTable ==
    [none          |-> Mon("none", FALSE, FALSE, FALSE, FALSE, FALSE, FALSE, "none"),
     hostile       |-> Mon("hostile", TRUE, FALSE, FALSE, FALSE, FALSE, FALSE, "normal"),
     unseen        |-> Mon("hostile", FALSE, FALSE, FALSE, FALSE, FALSE, FALSE, "normal"),
     submerged     |-> Mon("hostile", FALSE, TRUE, FALSE, FALSE, FALSE, FALSE, "normal"),
     beholder      |-> Mon("hostile", TRUE, FALSE, FALSE, FALSE, TRUE, FALSE, "normal"),
     fearmonger    |-> Mon("hostile", TRUE, FALSE, FALSE, FALSE, FALSE, TRUE, "normal"),
     neutral       |-> Mon("neutral", TRUE, FALSE, FALSE, FALSE, FALSE, FALSE, "normal"),
     friendly      |-> Mon("friendly", TRUE, FALSE, FALSE, FALSE, FALSE, FALSE, "normal"),
     plant         |-> Mon("neutral", TRUE, FALSE, TRUE, TRUE, FALSE, FALSE, "plant"),
     hostile_plant |-> Mon("hostile", TRUE, FALSE, TRUE, FALSE, FALSE, FALSE, "plant")]
MonKinds == DOMAIN MonsterTable \ {NoMon}
Info(m) == MonsterTable[m]

wont_attack(m) == Info(m).att \in {"friendly", "good_neutral"}
friendly(m) == Info(m).att = "friendly"
neutral(m) == Info(m).att \in {"neutral", "good_neutral"}
temp_attitude(m) == Info(m).att
mons_is_firewood(m) == Info(m).firewood
fedhas_passthrough(m) == Info(m).passthrough
can_see(m) == Info(m).visible

monster_at(s, p) == IF in_bounds(p) THEN s.mons[p] ELSE NoMon
cell_is_solid(s, p) == feat_is_solid(GrdAt(s.grd, p))
can_pass_through(s, p) == ~feat_is_solid(GrdAt(s.grd, p))
is_sanctuary(s, p) == p \in s.env.sanctuary
trans_wall_blocking(s, p) == p \in s.env.trans_blocked

\* player::get_beholder / get_fearmonger: a beholder forbids increasing the
\* distance to it, a fearmonger forbids decreasing it.
get_beholder(s, target) ==
    \E c \in Cells : /\ Info(s.mons[c]).beholder
                     /\ grid_distance(s.you.pos, c) < grid_distance(target, c)
get_fearmonger(s, target) ==
    \E c \in Cells : /\ Info(s.mons[c]).fearmonger
                     /\ grid_distance(s.you.pos, c) > grid_distance(target, c)

(***************************************************************************)
(* The working state of one call: the program state it may change (you,    *)
(* grd, mons, crawl_state), the call's argument and inputs, its locals and *)
(* the record of what it did.  ret = "run" while the call is executing;    *)
(* any other value names the return statement it left by.                  *)
(***************************************************************************)
Start(move, inp) ==
    [you |-> you, grd |-> grd, mons |-> mons, env |-> env,
     repeating |-> crawl_state.repeating,
     move |-> move, inp |-> inp, asked |-> {}, ret |-> "run", msgs |-> {},
     initial_position |-> you.pos,
     lunge |-> "none", lunge_pre |-> you, lunge_post |-> you, valid_target |-> NoCell,
     lunged |-> FALSE, attacking |-> FALSE, moving |-> TRUE, swap |-> FALSE,
     additional_time_taken |-> 0,
     targ |-> NoCell, occupant |-> NoMon, targ_monst |-> NoMon, targ_pass |-> FALSE,
     try_to_swap |-> FALSE, beholder |-> FALSE, fmonger |-> FALSE,
     mon_swap_dest |-> NoCell,
     fought |-> NoCell, swapped |-> FALSE, walked |-> FALSE, dug |-> FALSE,
     door |-> FALSE, door_action |-> FALSE, door_chosen |-> FALSE, doorpos |-> NoCell,
     portal |-> FALSE, net |-> FALSE,
     applied |-> 0, unfloored |-> 0, finalized |-> FALSE, epilogue |-> FALSE,
     noise |-> 0, events |-> << >>]

Ret(s, label) == [s EXCEPT !.ret = label]
Msg(s, m) == [s EXCEPT !.msgs = @ \cup {m}]
Ev(s, e) == [s EXCEPT !.events = Append(@, e)]

\* div_rand_round(a, b): a / b rounded down or up at random, in proportion
\* to the remainder; exact when b divides a.
div_rand_round(a, b, up) == (a \div b) + (IF a % b # 0 /\ up THEN 1 ELSE 0)
div_round_up(a, b) == (a + b - 1) \div b

\* The call reads the input named n: a prompt it raises, a random draw it
\* makes, a collaborator it asks.
Ask(s, n) == [s EXCEPT !.asked = @ \cup {n}]
\* yesno() and check_moveto(): the answer to the prompt named p.
declined(s, p) == s.inp.decline = p

(***************************************************************************)
(* Status helpers, lines 146-239.                                          *)
(***************************************************************************)
\* cancel_barbed_move: [cancel, s]
cancel_barbed_move(s, lunging) ==
    IF s.you.dur.barbs > 0 /\ ~s.you.barbs_move_key
    THEN IF declined(s, "barbs")
         THEN [cancel |-> TRUE, s |-> Msg(Ask(s, "barbs"), "ok")]
         ELSE [cancel |-> FALSE, s |-> [Ask(s, "barbs") EXCEPT !.you.barbs_move_key = TRUE]]
    ELSE [cancel |-> FALSE, s |-> s]

\* Lines 178-180: a barbs duration that did not end grows by the time taken.
barbs_stay(s, lunging) ==
    IF s.you.dur.barbs > 0
    THEN [s EXCEPT !.you.dur.barbs = @ + (IF lunging THEN 0 ELSE s.you.time_taken)]
    ELSE s

apply_barbs_damage(s, lunging) ==
    IF s.you.dur.barbs > 0
    \* one_chance_in(3): extract_manticore_spikes ends the effect
    THEN barbs_stay(IF s.inp.spikes
                    THEN [Msg(Ask(s, "spikes"), "barbs_dig") EXCEPT
                            !.you.dur.barbs = 0, !.you.barbs_move_key = FALSE]
                    ELSE Msg(Ask(s, "spikes"), "barbs_dig"), lunging)
    ELSE s

remove_ice_armour_movement(s) ==
    IF s.you.dur.icy_armour > 0
    THEN Msg([s EXCEPT !.you.dur.icy_armour = 0], "icy_cracks")
    ELSE s

remove_water_hold(s) ==
    IF s.you.dur.water_hold > 0
    THEN Msg([s EXCEPT !.you.dur.water_hold = 0], "slip_free")
    ELSE s

clear_constriction_data(s) == [s EXCEPT !.you.constricted = FALSE]

\* noxious_bog_cell turns a plain floor cell into toxic bog.
apply_noxious_bog(s, old_pos) ==
    IF s.you.dur.noxious_bog > 0 /\ ~cell_is_solid(s, old_pos) /\ s.grd[old_pos] = "floor"
    THEN [s EXCEPT !.grd[old_pos] = "toxic_bog"]
    ELSE s

\* move_player_to_grid(p, stepped): the player now stands on p.
move_player_to_grid(s, p) == Ev([s EXCEPT !.you.pos = p], "move_player_to_grid")

(***************************************************************************)
(* cancel_confused_move, lines 241-316.                                    *)
(***************************************************************************)
need_expiration_warning(s, f) == s.you.expiring /\ is_feat_dangerous(f)
bad_attack(m) == Info(m).att # "hostile" /\ Info(m).visible

\* The scan of the adjacent cells from the i-th on; acc = [dangerous, bad_mons].
RECURSIVE ConfusedScan(_, _, _, _)
ConfusedScan(s, stationary, i, acc) ==
    IF i > Len(AdjOrder) THEN acc
    ELSE LET ai == Add(s.you.pos, AdjOrder[i])
             f == GrdAt(s.grd, ai)
             m == monster_at(s, ai)
         IN IF /\ ~stationary
               /\ is_feat_dangerous(f)
               /\ need_expiration_warning(s, f)
               /\ (acc.dangerous = "floor" \/ f = "lava")
            THEN [acc EXCEPT !.dangerous = f]
            ELSE IF /\ m # NoMon
                    /\ (stationary
                        \/ (~(is_sanctuary(s, s.you.pos) /\ is_sanctuary(s, ai))
                            /\ ~fedhas_passthrough(m)))
                    /\ bad_attack(m)
                 THEN ConfusedScan(s, stationary, i + 1, [acc EXCEPT !.bad_mons = TRUE])
                 ELSE ConfusedScan(s, stationary, i + 1, acc)

\* Lines 282-302: what the prompt names.
prompt_text(acc) ==
    IF acc.dangerous # "floor"
    THEN IF acc.dangerous = "lava" THEN "prompt_lava" ELSE "prompt_deep_water"
    ELSE "prompt_monster"

\* Lines 280-315, for the result acc of the scan: [cancel, s, dangerous].
confused_prompt(s, acc) ==
    IF acc.dangerous # "floor" \/ acc.bad_mons
    THEN [cancel |-> declined(s, "confuse"),
          s |-> IF declined(s, "confuse")
                THEN Msg(Msg(Ask(s, "confuse"), prompt_text(acc)), "ok")
                ELSE Msg(Ask(s, "confuse"), prompt_text(acc)),
          dangerous |-> acc.dangerous]
    ELSE [cancel |-> FALSE, s |-> s, dangerous |-> acc.dangerous]

cancel_confused_move(s, stationary) ==
    confused_prompt(s, ConfusedScan(s, stationary, 1,
                                    [dangerous |-> "floor", bad_mons |-> FALSE]))

(***************************************************************************)
(* _lunge_forward, lines 518-706.                                          *)
(***************************************************************************)
\* The assertion of line 524.
lunge_assertion(pos, move) == Abs(pos[1] - move[1]) > 1 \/ Abs(pos[2] - move[2]) > 1

\* A tracer that only terrain breaks, not what is solid or behind a
\* transparent wall: what C7 rules out.
tracer_broken_by_terrain_only(s, p) ==
    ~feat_is_traversable(GrdAt(s.grd, p)) /\ ~(GrdAt(s.grd, p) = "shallow_water")
\* Lines 581-589: the tracer path is broken at cell p.
tracer_broken(s, p) ==
    \/ ~feat_is_traversable(GrdAt(s.grd, p)) /\ ~(GrdAt(s.grd, p) = "shallow_water")
    \/ cell_is_solid(s, p) \/ trans_wall_blocking(s, p)

\* The loop over beam.path_taken, lines 577-610, from the k-th cell of the
\* tracer on: the cell of the first valid target, or NoCell.
RECURSIVE TracerScan(_, _)
TracerScan(s, k) ==
    LET p == Add(s.you.pos, Mul(s.move, k))
        mon == monster_at(s, p)
    IN IF k > tracer_range \/ ~in_bounds(p) THEN NoCell
       ELSE IF tracer_broken(s, p) THEN NoCell
       ELSE IF mon = NoMon THEN TracerScan(s, k + 1)
       ELSE IF ~can_see(mon) THEN TracerScan(s, k + 1)
       ELSE IF friendly(mon) \/ neutral(mon) \/ mons_is_firewood(mon) THEN NoCell
       ELSE p

\* A failing lunge that costs time: what C6 rules out.
LungeFailCharged(s) ==
    [s EXCEPT !.lunge = "fail", !.you.time_taken = @ + 1,
              !.lunge_post = [s.you EXCEPT !.time_taken = @ + 1]]
LungeFail(s) == [s EXCEPT !.lunge = "fail", !.lunge_post = s.you]
LungeAbort(s) == [s EXCEPT !.lunge = "abort", !.lunge_post = s.you]
LungeSuccess(s) == [s EXCEPT !.lunge = "success", !.lunge_post = s.you]

\* Lines 683-705: the lunge itself.
LungeCommit(s, target) ==
    LungeSuccess(
        apply_noxious_bog(
            remove_ice_armour_movement(
                apply_barbs_damage(
                    move_player_to_grid(
                        Msg(clear_constriction_data(remove_water_hold(s)), "you_lunge"),
                        target),
                    TRUE)),
            s.you.pos))

\* Lines 679-705, for the answer b of cancel_barbed_move.
LungeBarbs(b, target) ==
    IF b.cancel THEN LungeAbort(b.s) ELSE LungeCommit(b.s, target)

\* Lines 611-705: the landing cell, once the tracer has found valid_target.
LungeLanding(s, lunge_target) ==
    IF s.valid_target = NoCell THEN LungeFail(s)
    ELSE IF lunge_target = s.you.pos THEN LungeFail(s)
    ELSE IF get_beholder(s, lunge_target)
    THEN LungeFail(Msg(s, "cannot_lunge_away"))
    ELSE IF get_fearmonger(s, lunge_target)
    THEN LungeFail(Msg(s, "cannot_lunge_closer"))
    ELSE IF monster_at(s, lunge_target) # NoMon
    THEN IF ~can_see(monster_at(s, lunge_target))
         THEN LungeFail(Msg(s, "something_blocked"))
         ELSE LungeFail(s)
    ELSE IF feat_is_lava(GrdAt(s.grd, lunge_target)) THEN LungeFail(s)
    ELSE IF GrdAt(s.grd, lunge_target) \in {"deep_water", "toxic_bog"} THEN LungeFail(s)
    ELSE IF trans_wall_blocking(s, lunge_target) THEN LungeFail(s)
    ELSE IF cell_is_solid(s, lunge_target) THEN LungeFail(s)
    ELSE IF declined(s, "moveto_lunge") THEN LungeAbort(Ask(s, "moveto_lunge"))
    ELSE LungeBarbs(cancel_barbed_move(Ask(s, "moveto_lunge"), TRUE), lunge_target)

\* Lines 524-705, for the state s in which the assertion was evaluated.
LungeAsserted(s) ==
    IF ~lunge_assertion(s.you.pos, s.move) /\ s.inp.asserts
    THEN [s EXCEPT !.lunge = "crash", !.ret = "crash"]
    ELSE IF s.repeating
    THEN LungeFail(Msg([s EXCEPT !.repeating = FALSE], "cant_repeat_lunge"))
    ELSE IF \/ s.you.nervous \/ s.you.confused
            \/ s.you.stationary \/ s.you.constricted
    THEN LungeFail(s)
    ELSE LungeLanding([s EXCEPT !.valid_target = TracerScan(s, 1)],
                      Add(s.you.pos, Mul(s.move, lunge_distance)))

lunge_forward(s) ==
    LungeAsserted(IF lunge_assertion(s.you.pos, s.move)
                  THEN [s EXCEPT !.lunge_pre = s.you]
                  ELSE Ask([s EXCEPT !.lunge_pre = s.you], "asserts"))

(***************************************************************************)
(* _apply_move_time_taken and _finalize_cancelled_lunge_move, 708-750.     *)
(***************************************************************************)
\* The time of a step without the floor of a running player: what C12
\* rules out.
apply_move_time_without_floor(s, additional_time_taken) ==
    LET t1 == s.you.time_taken * s.you.movement_speed
        t3 == div_rand_round(t1, 10, s.inp.round_up) + additional_time_taken
    IN [(IF t1 % 10 # 0 THEN Ask(s, "round_up") ELSE s) EXCEPT
                 !.you.time_taken = t3,
                 !.you.dur.no_hop = IF @ > 0 THEN @ + t3 ELSE @,
                 !.unfloored = t3,
                 !.applied = @ + 1]
apply_move_time_taken(s, additional_time_taken) ==
    LET t1 == s.you.time_taken * s.you.movement_speed
        t2 == div_rand_round(t1, 10, s.inp.round_up)
        t3 == t2 + additional_time_taken
        t4 == IF s.you.running # "none" /\ s.you.travel_speed # 0
              THEN Max(t3, div_round_up(100, s.you.travel_speed))
              ELSE t3
    IN [(IF t1 % 10 # 0 THEN Ask(s, "round_up") ELSE s) EXCEPT
                 !.you.time_taken = t4,
                 !.you.dur.no_hop = IF @ > 0 THEN @ + t4 ELSE @,
                 !.unfloored = t3,
                 !.applied = @ + 1]

\* A finalization that skips the time accounting: what C2 rules out.
finalize_without_time_taken(s) ==
    [s EXCEPT !.you.turn_is_over = TRUE,
              !.you.apply_berserk_penalty = TRUE,
              !.finalized = TRUE,
              !.events = Append(@, "post_move_effects")]
finalize_cancelled_lunge_move(s) ==
    LET s1 == apply_move_time_taken(s, 0)
    IN [s1 EXCEPT !.you.turn_is_over = TRUE,
                  !.you.apply_berserk_penalty = TRUE,
                  !.finalized = TRUE,
                  !.events = Append(@, "post_move_effects")]

(***************************************************************************)
(* _swap_places, lines 58-98: the monster on cell from goes to loc.        *)
(***************************************************************************)
swap_places(s, from, loc) ==
    LET m == s.mons[from]
        there == monster_at(s, loc)
    IN IF there # NoMon
       THEN IF Info(m).type = "wandering_mushroom" /\ Info(there).type = "toadstool"
            THEN Ev([s EXCEPT !.mons[loc] = m, !.mons[from] = there], "swap_places")
            ELSE Msg(s, "something_prevents_swap")
       ELSE IF Info(m).type = "foxfire"
            THEN Msg([s EXCEPT !.mons[from] = NoMon], "dissipates")
            ELSE Ev(Msg([s EXCEPT !.mons[loc] = m, !.mons[from] = NoMon],
                        "you_swap_places"), "swap_places")

stop_running(s) == [s EXCEPT !.you.running = "none"]

(***************************************************************************)
(* Doors, lines 100-130 and 318-484.                                       *)
(***************************************************************************)
\* find_connected_identical: the cells of the gate that cell p belongs to.
RECURSIVE Connected(_, _, _)
Connected(g, f, acc) ==
    LET more == {c \in Cells : /\ g[c] = f /\ c \notin acc
                               /\ \E a \in acc : grid_distance(a, c) = 1}
    IN IF more = {} THEN acc ELSE Connected(g, f, acc \cup more)

\* _check_adjacent from the i-th adjacent cell on: [num, delta, doors].
RECURSIVE CheckAdjacentFrom(_, _, _, _)
CheckAdjacentFrom(s, feat, i, acc) ==
    IF i > Len(AdjOrder) THEN acc
    ELSE LET ai == Add(s.you.pos, AdjOrder[i])
         IN IF AdjOrder[i] # origin /\ GrdAt(s.grd, ai) = feat
            THEN IF feat_is_door(feat) /\ ai \in acc.doors
                 THEN CheckAdjacentFrom(s, feat, i + 1, acc)
                 ELSE CheckAdjacentFrom(s, feat, i + 1,
                        [num |-> acc.num + 1, delta |-> AdjOrder[i],
                         doors |-> IF feat_is_door(feat) /\ in_bounds(ai)
                                   THEN acc.doors \cup Connected(s.grd, feat, {ai})
                                   ELSE acc.doors])
            ELSE CheckAdjacentFrom(s, feat, i + 1, acc)

\* A count of the adjacent doors of any kind: what C20 rules out.
check_adjacent_doors(s, feat, delta) ==
    [num |-> Cardinality({d \in Compass : feat_is_door(GrdAt(s.grd, Add(s.you.pos, d)))}),
     delta |-> IF \E d \in Compass : feat_is_door(GrdAt(s.grd, Add(s.you.pos, d)))
               THEN CHOOSE d \in Compass : feat_is_door(GrdAt(s.grd, Add(s.you.pos, d)))
               ELSE delta,
     doors |-> {}]
check_adjacent(s, feat, delta) ==
    CheckAdjacentFrom(s, feat, 1, [num |-> 0, delta |-> delta, doors |-> {}])

door_vetoed(s, p) == p \in s.env.vetoed

\* player_open_door / player_close_door: the whole gate changes state and
\* the turn is used.
player_open_door(s, p) ==
    LET gate == Connected(s.grd, s.grd[p], {p})
    IN Ev([s EXCEPT !.grd = [c \in Cells |-> IF c \in gate THEN "open_door" ELSE s.grd[c]],
                    !.you.turn_is_over = TRUE, !.door = TRUE], "player_open_door")

player_close_door(s, p) ==
    LET gate == Connected(s.grd, s.grd[p], {p})
    IN Ev([s EXCEPT !.grd = [c \in Cells |-> IF c \in gate THEN "closed_door" ELSE s.grd[c]],
                    !.you.turn_is_over = TRUE, !.door = TRUE], "player_close_door")

\* Lines 369 and 462: the cell the direction delta names.
ChooseDoor(s, delta) == [s EXCEPT !.door_chosen = TRUE, !.doorpos = Add(s.you.pos, delta)]


\* A door action that forces open whatever door it is pointed at: what C22
\* rules out.
OpenDoorChosenAnyDoor(s, doorpos) ==
    IF in_bounds(doorpos) /\ s.grd[doorpos] \in {"closed_door", "runed_door", "sealed_door"}
    THEN Ret(player_open_door(s, doorpos), "opened")
    ELSE Ret(Msg(s, "nothing_to_open_there"), "not_a_door")
\* Lines 371-420: the switch on the feature of the chosen cell.
OpenDoorChosen(s, doorpos) ==
    LET feat == IF in_bounds(doorpos) THEN s.grd[doorpos] ELSE "unseen"
    IN IF door_vetoed(s, doorpos)
       THEN Ret([Msg(s, "shut_tight") EXCEPT
                   !.you.turn_is_over = IF s.you.confused THEN TRUE ELSE @], "vetoed")
       ELSE IF feat \in {"closed_door", "runed_door"}
       THEN Ret(player_open_door(s, doorpos), "opened")
       ELSE IF feat = "open_door" THEN Ret(Msg(s, "already_open"), "already_open")
       ELSE IF feat = "sealed_door" THEN Ret(Msg(s, "sealed_shut"), "sealed")
       ELSE Ret(Msg(s, "nothing_to_open_there"), "not_a_door")
\* Lines 369-420, once the direction delta is known.
OpenDoorAt(s, delta) ==
    OpenDoorChosen(ChooseDoor(s, delta), Add(s.you.pos, delta))


\* prompt_compass_direction(), lines 360 and 454: the prompt is shown and
\* the answer read; the origin is a cancelled prompt.
prompt_compass_direction(s) == Ask(Msg(s, "prompt_direction"), "compass")

open_door_action(s, move) ==
    IF s.you.held
    THEN Ret([s EXCEPT !.net = TRUE, !.you.turn_is_over = TRUE], "held")
    ELSE IF s.you.confused THEN Ret(Msg(s, "too_confused"), "too_confused")
    ELSE IF move = origin
    THEN LET a == check_adjacent(s, "closed_door", move)
             b == check_adjacent(s, "runed_door", a.delta)
             num == a.num + b.num
         IN IF num = 0 THEN Ret(Msg(s, "nothing_to_open_nearby"), "nothing_nearby")
            ELSE IF num = 1 /\ s.env.easy_door THEN OpenDoorAt(s, b.delta)
            ELSE IF s.inp.compass = origin
            THEN Ret(prompt_compass_direction(s), "no_direction")
            ELSE OpenDoorAt(prompt_compass_direction(s), s.inp.compass)
    ELSE OpenDoorAt(s, move)

\* Lines 462-483, once the direction delta is known.
CloseDoorChosen(s, doorpos) ==
    LET feat == IF in_bounds(doorpos) THEN s.grd[doorpos] ELSE "unseen"
    IN IF feat = "open_door" THEN Ret(player_close_door(s, doorpos), "closed")
       ELSE IF feat \in {"closed_door", "runed_door", "sealed_door"}
       THEN Ret(Msg(s, "already_closed"), "already_closed")
       ELSE Ret(Msg(s, "nothing_to_close_there"), "not_a_door")
CloseDoorAt(s, delta) ==
    CloseDoorChosen(ChooseDoor(s, delta), Add(s.you.pos, delta))

close_door_action(s, move) ==
    IF s.you.held THEN Ret(Msg(s, "cant_close_held"), "held")
    ELSE IF s.you.confused THEN Ret(Msg(s, "too_confused"), "too_confused")
    ELSE IF move = origin
    THEN LET a == check_adjacent(s, "open_door", move)
         IN IF a.num = 0 THEN Ret(Msg(s, "nothing_to_close_nearby"), "nothing_nearby")
            ELSE IF a.num = 1 /\ s.env.easy_door THEN CloseDoorAt(s, a.delta)
            ELSE IF s.inp.compass = origin
            THEN Ret(prompt_compass_direction(s), "no_direction")
            ELSE CloseDoorAt(prompt_compass_direction(s), s.inp.compass)
    ELSE CloseDoorAt(s, move)

(***************************************************************************)
(* move_player_action, lines 754-1167, stage by stage.  Each stage is      *)
(* skipped once the call has returned (ret # "run").                       *)
(***************************************************************************)
\* A net that costs the turn but does not end the call: what C16 rules
\* out.
NetGateFallsThrough(s) ==
    IF s.you.held
    THEN Ev([s EXCEPT !.net = TRUE, !.you.turn_is_over = TRUE], "free_self_from_net")
    ELSE s
\* Lines 767-772.
NetGate(s) ==
    IF s.you.held
    THEN Ret(Ev([s EXCEPT !.net = TRUE, !.you.turn_is_over = TRUE], "free_self_from_net"),
             "held")
    ELSE s

\* Lines 808-829: the bump of a confused player.
ConfusedBump(s) ==
    LET s1 == [s EXCEPT !.you.turn_is_over = TRUE, !.you.apply_berserk_penalty = TRUE,
                        !.repeating = FALSE]
    IN IF s.you.digging
       THEN Ret(Msg([s1 EXCEPT !.you.digging = FALSE], "mandibles_retract_bump"), "bump")
       ELSE Ret(Msg(s1, "you_bump"), "bump")

\* Lines 808-829: a confused player moves by s.move, or bumps.
ConfusedTarget(s) ==
    IF \/ ~in_bounds(Add(s.you.pos, s.move))
       \/ ~can_pass_through(s, Add(s.you.pos, s.move))
    THEN ConfusedBump(s)
    ELSE s

\* A draw of the zero vector treated as a direction like any other: what
\* C17 rules out.
ConfusedRandomMoveAnywhere(s) ==
    ConfusedTarget([Ask(s, "rnd") EXCEPT !.move = IF s.inp.rnd # Keep THEN s.inp.rnd ELSE @])
\* Lines 795-829: two times in three the direction is drawn at random.
ConfusedRandomMove(s) ==
    IF s.inp.rnd = origin
    THEN Ret(Msg([Ask(s, "rnd") EXCEPT !.move = origin,
                                       !.you.apply_berserk_penalty = TRUE,
                                       !.you.turn_is_over = TRUE],
                 "too_confused_to_move"), "too_confused")
    ELSE ConfusedTarget([Ask(s, "rnd") EXCEPT
                           !.move = IF s.inp.rnd # Keep THEN s.inp.rnd ELSE @])

\* Lines 792-829, for the answer b of cancel_barbed_move.
ConfusedBarbs(b) ==
    IF b.cancel THEN Ret(b.s, "barbed_cancel") ELSE ConfusedRandomMove(b.s)

\* A confusion gate that stumbles on whatever the answer: what C14 rules
\* out.
ConfusedConfirmIgnored(c) == ConfusedBarbs(cancel_barbed_move(c.s, FALSE))
\* Lines 789-829, for the answer c of cancel_confused_move.
ConfusedConfirm(c) ==
    IF c.cancel THEN Ret(c.s, "confused_cancel")
    ELSE ConfusedBarbs(cancel_barbed_move(c.s, FALSE))

\* Lines 776-830.
ConfusionGate(s) ==
    IF s.ret # "run" \/ ~s.you.confused THEN s
    ELSE IF s.you.stationary THEN Ret(Msg(s, "cannot_move_use_ctrl"), "confused_stationary")
    ELSE ConfusedConfirm(cancel_confused_move(s, FALSE))

\* An aborted lunge treated as a failed one, so that the follow-up move
\* runs: what C9 rules out.
LungeStageAbortFallsThrough(s) ==
    IF s.ret # "run" \/ ~s.you.lunging THEN s
    ELSE LET r == lunge_forward(s)
         IN IF r.lunge = "crash" THEN r
            ELSE IF r.lunge = "success"
            THEN [r EXCEPT !.lunged = TRUE, !.initial_position = r.you.pos]
            ELSE r
\* An aborted lunge that finalizes the turn as a cancelled follow-up move
\* does: what the code does not do (C10).
LungeStageAbortFinalizes(s) ==
    IF s.ret # "run" \/ ~s.you.lunging THEN s
    ELSE LET r == lunge_forward(s)
         IN IF r.lunge = "crash" THEN r
            ELSE IF r.lunge = "abort"
            THEN Ret(finalize_cancelled_lunge_move(r), "lunge_abort")
            ELSE IF r.lunge = "success"
            THEN [r EXCEPT !.lunged = TRUE, !.initial_position = r.you.pos]
            ELSE r
\* Lines 836-856: the switch on the result r of _lunge_forward.
LungeSwitch(r) ==
    IF r.lunge = "crash" THEN r
    ELSE IF r.lunge = "abort" THEN Ret(r, "lunge_abort")
    ELSE IF r.lunge = "success"
    THEN [r EXCEPT !.lunged = TRUE, !.initial_position = r.you.pos]
    ELSE r
\* Lines 832-857.
LungeStage(s) ==
    IF s.ret # "run" \/ ~s.you.lunging THEN s
    ELSE LungeSwitch(lunge_forward(s))

\* Lines 859-867.
BoundsStage(s) ==
    IF s.ret # "run" THEN s
    ELSE LET targ == Add(s.you.pos, s.move)
             s1 == [s EXCEPT !.targ = targ]
         IN IF ~in_bounds(targ)
            THEN Ret(IF s.you.digging THEN Msg(s1, "too_hard_to_dig") ELSE s1,
                     "out_of_bounds")
            ELSE s1

\* A swap attempt with any occupant: what C3 rules out.
try_to_swap_any(s, m, targ) == m # NoMon
\* Lines 915-919: try_to_swap for the occupant m of cell targ.
try_to_swap(s, m, targ) ==
    /\ m # NoMon
    /\ \/ wont_attack(m) /\ ~s.you.confused
       \/ is_sanctuary(s, s.you.pos) /\ is_sanctuary(s, targ)

\* Lines 876-894: the occupant of the destination; a plant the player
\* passes through is no occupant and slows the move.
PassThroughPlants(s) ==
    IF fedhas_passthrough(monster_at(s, s.targ)) /\ ~s.you.stationary
    THEN Msg([(IF (s.you.time_taken * 3) % 2 # 0 THEN Ask(s, "round_up_plant") ELSE s)
                EXCEPT !.you.time_taken = div_rand_round(@ * 3, 2, s.inp.round_up_plant),
                       !.occupant = monster_at(s, s.targ),
                       !.targ_monst = NoMon],
             "carefully_through_plants")
    ELSE [s EXCEPT !.occupant = monster_at(s, s.targ),
                   !.targ_monst = monster_at(s, s.targ)]

\* Lines 896-910: targ_pass and the digging override.
Passability(s) ==
    IF s.you.digging
    THEN IF feat_is_diggable(s.grd[s.targ])
         THEN [s EXCEPT !.targ_pass = TRUE]
         ELSE Msg([s EXCEPT !.you.digging = FALSE,
                            !.targ_pass = can_pass_through(s, s.targ) /\ ~s.you.stationary],
                  IF feat_is_solid(s.grd[s.targ]) THEN "cant_dig_through_that"
                  ELSE "retract_mandibles")
    ELSE [s EXCEPT !.targ_pass = can_pass_through(s, s.targ) /\ ~s.you.stationary]

\* Lines 912-930: the swap, beholder and fearmonger decisions.
Restrictions(s) ==
    [s EXCEPT !.try_to_swap = try_to_swap(s, s.targ_monst, s.targ),
              !.beholder = ~s.you.confused /\ get_beholder(s, s.targ),
              !.fmonger = ~s.you.confused /\ get_fearmonger(s, s.targ)]

\* Lines 876-930.
ClassifyStage(s) ==
    IF s.ret # "run" THEN s
    ELSE Restrictions(Passability(PassThroughPlants(s)))

\* A cancelled follow-up move that never finalizes the turn, lunge or no
\* lunge: what C25 rules out.
CancelMoveNeverFinalized(s, label) == Ret([s EXCEPT !.you.turn_is_over = FALSE], label)
\* The three places where a cancelled follow-up move ends the call: after a
\* lunge the turn is finalized, otherwise the turn is not over.
CancelMove(s, label) ==
    IF s.lunged
    THEN Ret([finalize_cancelled_lunge_move(s) EXCEPT !.move = origin], label)
    ELSE Ret([s EXCEPT !.you.turn_is_over = FALSE], label)

\* Lines 932-944.
RunStopStage(s) ==
    IF s.ret # "run" THEN s
    ELSE IF s.you.running # "none" /\ s.inp.run_stop
    THEN CancelMove(stop_running(Ask(s, "run_stop")), "run_stopped")
    ELSE IF s.you.running # "none" THEN Ask(s, "run_stop")
    ELSE s

\* swap_check: no swap for a stationary player; otherwise the destination
\* found for the monster, or none.
swap_check(s) ==
    LET loc == Add(s.targ, s.inp.swap)
    IN IF s.you.stationary \/ s.inp.swap = origin THEN NoCell
       ELSE IF in_bounds(loc) /\ ~cell_is_solid(s, loc) THEN loc
       ELSE NoCell

\* No occupant ever refuses: what C5 rules out.
refuses_never(s, m) == FALSE
\* Lines 960-961: the occupant m refuses to make way.
refuses_to_make_way(s, m) ==
    temp_attitude(m) = "neutral" /\ ~s.you.confused /\ Info(m).visible

\* Lines 948-1004.
ResolveStage(s) ==
    IF s.ret # "run" THEN s
    ELSE LET m == s.targ_monst
         IN IF m # NoMon /\ ~Info(m).submerged
            THEN IF s.try_to_swap /\ ~s.beholder /\ ~s.fmonger
                 THEN IF swap_check(s) # NoCell
                      THEN [Ask(s, "swap") EXCEPT !.swap = TRUE,
                                                  !.mon_swap_dest = swap_check(s)]
                      ELSE [stop_running(Ask(s, "swap")) EXCEPT !.moving = FALSE]
                 ELSE IF refuses_to_make_way(s, m)
                 THEN Ret(Msg([s EXCEPT !.you.turn_is_over = FALSE], "refuses_to_make_way"),
                          "refused")
                 ELSE IF ~s.try_to_swap
                 THEN IF ~can_see(m) /\ ~s.you.confused /\ declined(s, "moveto")
                      THEN CancelMove(stop_running(Ask(s, "moveto")), "unseen_cancel")
                      ELSE Ev([(IF ~can_see(m) /\ ~s.you.confused
                                THEN Ask(s, "moveto") ELSE s)
                                 EXCEPT !.you.turn_is_over = TRUE,
                                        !.fought = s.targ,
                                        !.you.berserk_penalty = 0,
                                        !.attacking = TRUE], "fight_melee")
                 ELSE s
            ELSE IF s.you.fungus /\ s.moving /\ ~s.you.confused /\ s.you.nervous
            THEN Ret(Msg([stop_running(s) EXCEPT !.you.turn_is_over = FALSE],
                         "too_terrified"), "terrified")
            ELSE s

\* A dig that is free: what C13 rules out.
DigThroughAtNoCost(s) ==
    IF s.you.digging
    THEN Ev(Msg([s EXCEPT !.grd[s.targ] = "floor", !.noise = @ + 1, !.dug = TRUE],
                "you_dig_through"), "destroy_wall")
    ELSE s
\* Lines 1041-1048.
DigThrough(s) ==
    IF s.you.digging
    THEN Ev(Msg([s EXCEPT !.grd[s.targ] = "floor", !.noise = @ + 1, !.dug = TRUE,
                          !.additional_time_taken = @ + (BASELINE_DELAY \div 5)],
                "you_dig_through"), "destroy_wall")
    ELSE s

\* Lines 1050-1051.
SwapMonster(s) ==
    IF s.swap
    THEN [swap_places(s, s.targ, s.mon_swap_dest) EXCEPT !.swapped = TRUE]
    ELSE s

\* A step that leaves the player where it stands: what C11 rules out.
StepOntoNowhere(s) == s
\* Lines 1058-1070: the step itself; s.you.pos is old_pos.
StepOnto(s) ==
    IF s.you.pos # s.targ /\ s.targ_pass
    THEN apply_noxious_bog(
             remove_ice_armour_movement(
                 apply_barbs_damage(
                     [move_player_to_grid(clear_constriction_data(remove_water_hold(s)),
                                          s.targ) EXCEPT !.walked = TRUE],
                     FALSE)),
             s.you.pos)
    ELSE s

\* Lines 1075-1076.
SwapEffects(s) == IF s.swap THEN Ev(s, "apply_location_effects") ELSE s

\* A walk that charges the move time once per square moved, the square of
\* the lunge included: what C26 rules out.
MoveTimePerSquare(s) ==
    [apply_move_time_taken(IF s.lunged THEN apply_move_time_taken(s, 0) ELSE s,
                           s.additional_time_taken) EXCEPT
        !.move = origin, !.you.turn_is_over = TRUE]
\* Lines 1081-1085.
MoveTime(s) ==
    [apply_move_time_taken(s, s.additional_time_taken) EXCEPT
        !.move = origin, !.you.turn_is_over = TRUE]

\* A swap that applies the occupant's location effects before the player
\* steps: what C19 rules out.
CommitMoveEffectsFirst(s) == MoveTime(StepOnto(SwapEffects(SwapMonster(DigThrough(s)))))
\* Lines 1041-1086: the committed move.
CommitMove(s) == MoveTime(SwapEffects(StepOnto(SwapMonster(DigThrough(s)))))

\* attempt_escape: false means constricted and did not escape.
attempt_escape(s) == ~s.you.constricted \/ s.inp.escape

\* Lines 1038-1086, for the state e in which attempt_escape is asked.
WalkEscape(e) ==
    IF ~attempt_escape(e) THEN Ret(e, "no_escape") ELSE CommitMove(e)

\* Lines 1035-1086, for the answer b of cancel_barbed_move.
WalkBarbs(b) ==
    IF b.cancel THEN Ret(b.s, "barbed_cancel")
    ELSE WalkEscape(IF b.s.you.constricted THEN Ask(b.s, "escape") ELSE b.s)

\* A walk without the look at the terrain a confused player is about to
\* enter: what C28 rules out.
WalkHeedless(s) ==
    IF ~s.you.confused /\ declined(s, "moveto")
    THEN CancelMove(stop_running(Ask(s, "moveto")), "moveto_cancel")
    ELSE WalkBarbs(IF ~s.you.confused THEN cancel_barbed_move(Ask(s, "moveto"), FALSE)
                   ELSE [cancel |-> FALSE, s |-> s])
\* Lines 1010-1086: the walk, once its guard of line 1008 holds.
Walk(s) ==
    IF s.you.confused /\ is_feat_dangerous(s.grd[s.targ])
    THEN Ret(Msg([s EXCEPT !.you.apply_berserk_penalty = TRUE,
                           !.you.turn_is_over = TRUE], "nearly_stumble"), "stumble")
    ELSE IF ~s.you.confused /\ declined(s, "moveto")
    THEN CancelMove(stop_running(Ask(s, "moveto")), "moveto_cancel")
    ELSE WalkBarbs(IF ~s.you.confused THEN cancel_barbed_move(Ask(s, "moveto"), FALSE)
                   ELSE [cancel |-> FALSE, s |-> s])

\* A walk block that ignores the beholder and the fearmonger: what C4
\* rules out.
WalkStageUnrestricted(s) ==
    IF s.ret # "run" THEN s
    ELSE IF ~s.attacking /\ s.targ_pass /\ s.moving THEN Walk(s)
    ELSE s
\* Lines 1008-1086.
WalkStage(s) ==
    IF s.ret # "run" THEN s
    ELSE IF ~s.attacking /\ s.targ_pass /\ s.moving /\ ~s.beholder /\ ~s.fmonger
    THEN Walk(s)
    ELSE s

\* _entered_malign_portal: the player is blinked away and hurt.
entered_malign_portal(s) ==
    Ev([Ask(s, "blink") EXCEPT !.you.pos = IF s.inp.blink = NoCell THEN @ ELSE s.inp.blink,
                                !.portal = TRUE], "entered_malign_portal")

\* Lines 1088-1142.
TailStage(s) ==
    IF s.ret # "run" THEN s
    ELSE LET f == s.grd[s.targ]
         IN IF /\ (s.env.travel_open_doors \/ s.you.running = "none")
               /\ ~s.attacking
               /\ feat_is_closed_door(f)
            THEN [open_door_action(s, s.move) EXCEPT !.move = origin, !.ret = "door",
                                                     !.door_action = TRUE]
            ELSE IF ~s.targ_pass /\ f = "malign_gateway" /\ ~s.attacking /\ ~s.you.stationary
            THEN IF declined(s, "portal") THEN Ret(Ask(s, "portal"), "portal_cancel")
                 ELSE Ret(entered_malign_portal([Ask(s, "portal") EXCEPT !.move = origin,
                                                          !.you.turn_is_over = TRUE]),
                          "portal")
            ELSE IF ~s.targ_pass /\ ~s.attacking
            THEN Ret([stop_running(IF s.you.stationary THEN Msg(s, "cannot_move") ELSE s)
                        EXCEPT !.move = origin, !.you.turn_is_over = FALSE,
                               !.repeating = FALSE], "blocked")
            ELSE IF s.beholder /\ ~s.attacking
            THEN Ret(stop_running(Msg(s, "cannot_move_away")), "beholder")
            ELSE IF s.fmonger /\ ~s.attacking
            THEN Ret(stop_running(Msg(s, "cannot_move_closer")), "fearmonger")
            ELSE s

\* Lines 1144-1166.
EpilogueStage(s) ==
    IF s.ret # "run" THEN s
    ELSE Ret(Ev([s EXCEPT !.you.running = IF @ = "start" THEN "continue" ELSE @,
                          !.you.apply_berserk_penalty = ~s.attacking,
                          !.epilogue = TRUE],
                IF s.attacking THEN "epilogue" ELSE "post_move_effects"), "end")

move_player_action(s) ==
    EpilogueStage(TailStage(WalkStage(ResolveStage(RunStopStage(
        ClassifyStage(BoundsStage(LungeStage(ConfusionGate(NetGate(s))))))))))

(***************************************************************************)
(* The states a call may start from.  The plain state is a player with no  *)
(* status on an all-floor level without monsters.  A start state departs   *)
(* from it by the lunge capability and by at most two oddities: a status   *)
(* of the player, a monster or a feature on a cell near the player, a      *)
(* property of the level, or a scene made of two of these.                 *)
(***************************************************************************)
PlainYou(p) ==
    [pos |-> p, held |-> FALSE, confused |-> FALSE, stationary |-> FALSE,
     nervous |-> FALSE, constricted |-> FALSE, lunging |-> FALSE, digging |-> FALSE,
     fungus |-> FALSE, expiring |-> FALSE, barbs_move_key |-> FALSE,
     running |-> "none", travel_speed |-> 0, movement_speed |-> 10,
     time_taken |-> BASELINE_DELAY, turn_is_over |-> FALSE,
     apply_berserk_penalty |-> FALSE, berserk_penalty |-> 1,
     dur |-> [barbs |-> 0, icy_armour |-> 0, water_hold |-> 0, no_hop |-> 0,
              noxious_bog |-> 0]]

\* "running" is a run at travel_speed 6 (a floor of 17 on the time of a step),
\* "running_fast" one at travel_speed 20 (a floor of 5), "running_unpaced"
\* one with travel_speed 0; "hasted" is a player whose action takes 7.
Statuses == {"held", "confused", "stationary", "nervous", "constricted",
             "digging", "fungus", "barbs", "running", "running_fast",
             "running_unpaced", "repeating", "durations", "slow", "hasted",
             "expiring"}

WithStatus(y, S) ==
    [y EXCEPT !.held = "held" \in S, !.confused = "confused" \in S,
              !.stationary = "stationary" \in S, !.nervous = "nervous" \in S,
              !.constricted = "constricted" \in S,
              !.digging = "digging" \in S, !.fungus = "fungus" \in S,
              !.expiring = "expiring" \in S,
              !.running = IF S \cap {"running", "running_fast", "running_unpaced"} # {}
                          THEN "start" ELSE "none",
              !.travel_speed = IF "running" \in S THEN 6
                               ELSE IF "running_fast" \in S THEN 20 ELSE 0,
              !.movement_speed = IF "slow" \in S THEN 14 ELSE 10,
              !.time_taken = IF "hasted" \in S THEN 7 ELSE BASELINE_DELAY,
              !.dur = [barbs |-> IF "barbs" \in S THEN 5 ELSE 0,
                       icy_armour |-> IF "durations" \in S THEN 5 ELSE 0,
                       water_hold |-> IF "durations" \in S THEN 5 ELSE 0,
                       no_hop |-> IF "durations" \in S THEN 5 ELSE 0,
                       noxious_bog |-> IF "durations" \in S THEN 5 ELSE 0]]

LevelProps == {"sanctuary", "half_sanctuary", "trans_wall", "no_easy_door", "vetoed"}

WithProps(P) ==
    [sanctuary |-> IF "sanctuary" \in P THEN Cells
                   ELSE IF "half_sanctuary" \in P THEN {c \in Cells : c[1] <= 2}
                   ELSE {},
     trans_blocked |-> IF "trans_wall" \in P THEN {c \in Cells : c[1] = 3} ELSE {},
     vetoed |-> IF "vetoed" \in P THEN {c \in Cells : c[1] = 2} ELSE {},
     easy_door |-> "no_easy_door" \notin P,
     travel_open_doors |-> "travel_open_doors" \in P]

StartCells == {<<1, 1>>, <<1, GridH>>}
\* The cells near a start cell: its row and the cell above or below it.
Sites(p) == {c \in Cells \ {p} : c[2] = p[2] \/ (c[1] = p[1] /\ Abs(c[2] - p[2]) = 1)}

StartFeats == {"shallow_water", "deep_water", "lava", "toxic_bog", "rock_wall",
               "closed_door", "runed_door", "sealed_door", "open_door",
               "malign_gateway"}

Odd(kind, name, cell, mon) == [kind |-> kind, name |-> name, cell |-> cell, mon |-> mon]
NoOdd == Odd("none", "", NoCell, NoMon)
\* A scene is an oddity made of two: a digger in front of rock, a player
\* whose form is expiring next to lava, a nervous player in fungus form, a
\* door that the map keeps shut, a confused player beside deep water.
Scenes == {"rock_face", "lava_shore", "nervous_fungus", "locked_door", "dazed_by_water"}
Scene(name, p) ==
    CASE name = "rock_face" -> {Odd("status", "digging", NoCell, NoMon),
                                Odd("feat", "rock_wall", Add(p, <<1, 0>>), NoMon)}
      [] name = "lava_shore" -> {Odd("status", "expiring", NoCell, NoMon),
                                 Odd("feat", "lava", Add(p, <<1, 0>>), NoMon)}
      [] name = "locked_door" -> {Odd("prop", "vetoed", NoCell, NoMon),
                                  Odd("feat", "closed_door", Add(p, <<1, 0>>), NoMon)}
      [] name = "dazed_by_water" ->
            {Odd("status", "confused", NoCell, NoMon),
             Odd("feat", "deep_water", Add(p, <<0, IF p[2] = 1 THEN 1 ELSE -1>>), NoMon)}
      [] name = "nervous_fungus" -> {Odd("status", "fungus", NoCell, NoMon),
                                     Odd("status", "nervous", NoCell, NoMon)}
Parts(o, p) == IF o.kind = "scene" THEN Scene(o.name, p) ELSE {o}
Oddities(p) ==
    {NoOdd}
    \cup {Odd("scene", n, NoCell, NoMon) : n \in Scenes}
    \cup {Odd("status", n, NoCell, NoMon) : n \in Statuses}
    \cup {Odd("prop", n, NoCell, NoMon) : n \in LevelProps}
    \cup {Odd("mon", "", c, m) : c \in Sites(p), m \in MonKinds}
    \cup {Odd("feat", f, c, NoMon) : c \in Sites(p), f \in StartFeats}

NoInput == [decline |-> "none", run_stop |-> FALSE, swap |-> origin, rnd |-> Keep,
            escape |-> TRUE, round_up |-> FALSE, round_up_plant |-> FALSE,
            spikes |-> FALSE, asserts |-> TRUE, blink |-> NoCell, compass |-> origin]

Trace(r, call, arg) ==
    [call |-> call, arg |-> arg, inp |-> r.inp, asked |-> r.asked, ret |-> r.ret,
     msgs |-> r.msgs,
     pre |-> [you |-> you, grd |-> grd, mons |-> mons, repeating |-> crawl_state.repeating],
     move |-> r.move,
     lunge |-> r.lunge, lunge_pre |-> r.lunge_pre, lunge_post |-> r.lunge_post,
     valid_target |-> r.valid_target, lunged |-> r.lunged,
     targ |-> r.targ, occupant |-> r.occupant, targ_monst |-> r.targ_monst,
     targ_pass |-> r.targ_pass, try_to_swap |-> r.try_to_swap,
     beholder |-> r.beholder, fmonger |-> r.fmonger,
     attacking |-> r.attacking, moving |-> r.moving, swap |-> r.swap,
     mon_swap_dest |-> r.mon_swap_dest,
     fought |-> r.fought, swapped |-> r.swapped, walked |-> r.walked, dug |-> r.dug,
     door |-> r.door, door_action |-> r.door_action,
     door_chosen |-> r.door_chosen, doorpos |-> r.doorpos,
     portal |-> r.portal, net |-> r.net,
     applied |-> r.applied, unfloored |-> r.unfloored, finalized |-> r.finalized, epilogue |-> r.epilogue,
     noise |-> r.noise, events |-> r.events]

\* The player stands in a corner of the map; the level is plain floor but for
\* two oddities.  Without the lunge ability the two
\* corners mirror each other, so one of them stands for both.
Init ==
    \E p \in StartCells, lng \in BOOLEAN :
      \E a \in Oddities(p), b \in Oddities(p) :
        LET O == Parts(a, p) \cup Parts(b, p)
            S == {o.name : o \in {x \in O : x.kind = "status"}}
            P == {o.name : o \in {x \in O : x.kind = "prop"}}
            M == {o \in O : o.kind = "mon"}
            T == {o \in O : o.kind = "feat"}
        IN /\ lng \/ p = <<1, GridH>>
           /\ \A x, y \in M : x.cell = y.cell => x = y
           /\ \A x, y \in T : x.cell = y.cell => x = y
           /\ \A x \in M, y \in T : x.cell = y.cell => ~feat_is_solid(y.name)
           /\ you = [WithStatus(PlainYou(p), S) EXCEPT !.lunging = lng]
           /\ grd = [c \in Cells |-> IF \E x \in T : x.cell = c
                                     THEN (CHOOSE x \in T : x.cell = c).name ELSE "floor"]
           /\ mons = [c \in Cells |-> IF \E x \in M : x.cell = c
                                      THEN (CHOOSE x \in M : x.cell = c).mon ELSE NoMon]
           /\ env = WithProps(P)
           /\ crawl_state = [repeating |-> "repeating" \in S]
           /\ tr = Trace(Start(origin, NoInput), "none", origin)
           /\ pc = "input"

(***************************************************************************)
(* The inputs of one call: the answers to the prompts it raises, the       *)
(* random draws it makes and the results of the collaborators it asks.     *)
(* An input the call does not read keeps its default, so the runs of a     *)
(* call are explored from the run with every input at its default by       *)
(* giving one more of the inputs it read another value.                    *)
(***************************************************************************)
Prompts == {"confuse", "barbs", "moveto_lunge", "moveto", "portal"}
InputOrder == <<"rnd", "asserts", "run_stop", "swap", "escape", "round_up_plant",
                "round_up", "spikes", "blink", "compass">>
Rank(n) == IF n \in Prompts THEN Len(InputOrder) + 1
           ELSE CHOOSE i \in 1..Len(InputOrder) : InputOrder[i] = n

Alternatives(inp, n) ==
    CASE n \in Prompts -> {[inp EXCEPT !.decline = n]}
      [] n = "rnd" -> {[inp EXCEPT !.rnd = d] : d \in Offsets}
      [] n = "asserts" -> {[inp EXCEPT !.asserts = FALSE]}
      [] n = "run_stop" -> {[inp EXCEPT !.run_stop = TRUE]}
      [] n = "swap" -> {[inp EXCEPT !.swap = d] : d \in Compass}
      [] n = "escape" -> {[inp EXCEPT !.escape = FALSE]}
      [] n = "round_up_plant" -> {[inp EXCEPT !.round_up_plant = TRUE]}
      [] n = "round_up" -> {[inp EXCEPT !.round_up = TRUE]}
      [] n = "spikes" -> {[inp EXCEPT !.spikes = TRUE]}
      [] n = "blink" -> {[inp EXCEPT !.blink = c] :
                           c \in {x \in Cells : mons[x] = NoMon /\ ~feat_is_solid(grd[x])}}
      [] n = "compass" -> {[inp EXCEPT !.compass = d] : d \in Compass}

Call(call, arg, inp) ==
    CASE call = "move_player_action" -> move_player_action(Start(arg, inp))
      [] call = "open_door_action" -> open_door_action(Start(arg, inp), arg)
      [] call = "close_door_action" -> close_door_action(Start(arg, inp), arg)

RECURSIVE Runs(_, _, _, _)
\* The run r and the runs that change one more of the inputs r read.
RunsAfter(call, arg, rank, r) ==
    {r} \cup UNION {Runs(call, arg, x[1], x[2]) :
                     x \in UNION {Alternatives(r.inp, n) \X {Rank(n)} :
                                    n \in {a \in r.asked : Rank(a) > rank}}}
Runs(call, arg, inp, rank) == RunsAfter(call, arg, rank, Call(call, arg, inp))

\* An input the call did not read has its default value.
InputsRead(r) ==
    /\ r.inp.decline # "none" => r.inp.decline \in r.asked
    /\ r.inp.run_stop => "run_stop" \in r.asked
    /\ r.inp.swap # origin => "swap" \in r.asked
    /\ r.inp.rnd # Keep => "rnd" \in r.asked
    /\ ~r.inp.escape => "escape" \in r.asked
    /\ r.inp.round_up => "round_up" \in r.asked
    /\ r.inp.round_up_plant => "round_up_plant" \in r.asked
    /\ r.inp.spikes => "spikes" \in r.asked
    /\ ~r.inp.asserts => "asserts" \in r.asked
    /\ r.inp.blink # NoCell => "blink" \in r.asked
    /\ r.inp.compass # origin => "compass" \in r.asked

MovePlayerAction ==
    /\ pc = "input"
    /\ \E move \in Compass : \E r \in Runs("move_player_action", move, NoInput, 0) :
            /\ InputsRead(r)
            /\ you' = r.you
            /\ grd' = r.grd
            /\ mons' = r.mons
            /\ crawl_state' = [repeating |-> r.repeating]
            /\ tr' = Trace(r, "move_player_action", move)
    /\ pc' = "done"
    /\ UNCHANGED env

\* open_door_action and close_door_action are called with a direction or,
\* the direction not yet picked, with the origin.
OpenDoorAction ==
    /\ pc = "input"
    /\ \E move \in Offsets : \E r \in Runs("open_door_action", move, NoInput, 0) :
            /\ InputsRead(r)
            /\ you' = r.you
            /\ grd' = r.grd
            /\ mons' = r.mons
            /\ crawl_state' = [repeating |-> r.repeating]
            /\ tr' = Trace(r, "open_door_action", move)
    /\ pc' = "done"
    /\ UNCHANGED env

CloseDoorAction ==
    /\ pc = "input"
    /\ \E move \in Offsets : \E r \in Runs("close_door_action", move, NoInput, 0) :
            /\ InputsRead(r)
            /\ you' = r.you
            /\ grd' = r.grd
            /\ mons' = r.mons
            /\ crawl_state' = [repeating |-> r.repeating]
            /\ tr' = Trace(r, "close_door_action", move)
    /\ pc' = "done"
    /\ UNCHANGED env

Next == MovePlayerAction \/ OpenDoorAction \/ CloseDoorAction

Spec == Init /\ [][Next]_vars

(***************************************************************************)
(* Properties.  A property speaks of the state after one call: tr holds    *)
(* what the call did and tr.pre the state it started from.                 *)
(***************************************************************************)
\* move_player_action was called and has returned (an assertion failure
\* aborts the program: the call does not return).
Returned == pc = "done" /\ tr.call = "move_player_action" /\ tr.ret # "crash"
\* The call got as far as classifying an in-bounds destination (line 876).
Resolved == Returned /\ tr.targ \in Cells
\* The player's cell when the destination was classified: the cell after
\* the lunge, if there was one.
PosAtResolve == tr.lunge_post.pos
BothSanctuary == PosAtResolve \in env.sanctuary /\ tr.targ \in env.sanctuary

\* C1: one call of move_player_action never returns with the player's
\* position changed while no turn was consumed (turn_is_over not set and
\* _apply_move_time_taken not applied), in particular after a lunge whose
\* follow-up step is rejected.
C1_NoFreeReposition ==
    Returned => ~(you.pos # tr.pre.you.pos /\ ~you.turn_is_over /\ tr.applied = 0)

C3_SwapElseAttack ==
    Resolved /\ tr.ret # "run_stopped" =>
        /\ tr.swap => wont_attack(tr.occupant) \/ BothSanctuary
        /\ ( /\ tr.occupant # NoMon
             /\ ~(wont_attack(tr.occupant) \/ BothSanctuary)
             /\ ~tr.beholder /\ ~tr.fmonger ) => tr.fought = tr.targ

\* C3, amended: a swap is chosen only when the occupant wont_attack or both
\* cells are sanctuary; every other occupied destination that is not blocked
\* is attacked, unless the occupant is submerged, is a plant the player
\* passes through, is a visible neutral facing an unconfused player (the
\* move is refused), or is unseen and the check_moveto prompt is declined
\* by an unconfused player, or a run stop cancels the move.
C3_SwapElseAttackAmended ==
    Resolved /\ tr.ret # "run_stopped" =>
        /\ tr.swap => /\ tr.targ_monst # NoMon
                      /\ wont_attack(tr.targ_monst) \/ BothSanctuary
        /\ ( /\ tr.occupant # NoMon
             /\ ~(wont_attack(tr.occupant) \/ BothSanctuary)
             /\ ~tr.beholder /\ ~tr.fmonger
             /\ ~Info(tr.occupant).submerged
             /\ ~(fedhas_passthrough(tr.occupant) /\ ~tr.pre.you.stationary)
             /\ ~(neutral(tr.occupant) /\ can_see(tr.occupant) /\ ~tr.pre.you.confused)
             /\ ~(~can_see(tr.occupant) /\ ~tr.pre.you.confused
                  /\ tr.inp.decline = "moveto") ) => tr.fought = tr.targ

\* A hostile occupant is swapped with because both cells are sanctuary.
C3_Witness ==
    Resolved /\ tr.swapped /\ BothSanctuary /\ ~wont_attack(tr.targ_monst)

NamedBlockMessage == "cannot_move_away" \in tr.msgs \/ "cannot_move_closer" \in tr.msgs
Restricted == Resolved /\ (tr.beholder \/ tr.fmonger)

\* C4 as stated: whenever a beholder or fearmonger restriction applies to
\* the destination, the move is blocked with the named message and neither
\* a swap nor an attack on the occupant takes place.
C4_RestrictionOverridesAttack ==
    Restricted /\ tr.ret # "run_stopped" =>
        NamedBlockMessage /\ ~tr.swapped /\ tr.fought = NoCell

\* C4, amended: whenever a beholder or fearmonger restriction applies to the
\* destination, neither a swap nor a walk into the destination takes place;
\* the restriction does not override an attack: an occupant that would be
\* attacked without the restriction is still attacked, and the move is
\* blocked with the named message only when no attack is made, exactly on
\* the paths where the destination is passable and the call was not ended
\* before by a run stop, a refusal or a declined prompt.
C4_RestrictionBlocksMoveOnly ==
    Restricted =>
        /\ ~tr.swap /\ ~tr.swapped /\ ~tr.walked
        /\ NamedBlockMessage <=> tr.ret \in {"beholder", "fearmonger"}
        /\ tr.ret \in {"beholder", "fearmonger"} =>
               tr.fought = NoCell /\ you.pos = PosAtResolve /\ tr.applied = 0
        /\ ( /\ tr.targ_pass /\ tr.fought = NoCell
             /\ tr.ret \notin {"run_stopped", "refused", "unseen_cancel", "terrified"} )
               => tr.ret \in {"beholder", "fearmonger"}
        /\ ( /\ tr.targ_monst # NoMon /\ ~Info(tr.targ_monst).submerged
             /\ ~try_to_swap([you |-> tr.lunge_post, env |-> env], tr.targ_monst, tr.targ)
             /\ ~refuses_to_make_way([you |-> tr.lunge_post], tr.targ_monst)
             /\ tr.ret \notin {"run_stopped", "unseen_cancel"} )
               => tr.fought = tr.targ

\* A restricted move onto an empty cell is blocked with the message.
C4_Witness ==
    Restricted /\ tr.ret \in {"beholder", "fearmonger"} /\ tr.occupant = NoMon

C6_LungeFailFrame ==
    pc = "done" /\ tr.lunge = "fail" =>
        /\ tr.lunge_post.pos = tr.lunge_pre.pos
        /\ tr.lunge_post.time_taken = tr.lunge_pre.time_taken
        /\ tr.lunge_post.dur = tr.lunge_pre.dur

\* A lunge that found a valid target failed on its landing cell, for a
\* player with running durations.
C6_Witness ==
    pc = "done" /\ tr.lunge = "fail" /\ tr.valid_target # NoCell
                /\ tr.lunge_pre.dur.icy_armour > 0

\* C7: whenever _lunge_forward returns spret::success, the player has moved
\* by exactly one cell in the requested direction onto a cell that differs
\* from the old one, held no occupant, is not lava, deep water or toxic bog,
\* is not solid and not behind a transparent wall; every cell of the tracer
\* path before the chosen target was traversable (or shallow water),
\* non-solid and not behind a transparent wall.
C7_LungeSuccessLanding ==
    pc = "done" /\ tr.lunge = "success" =>
        LET old == tr.lunge_pre.pos
            new == tr.lunge_post.pos
            dist == grid_distance(old, tr.valid_target)
            Clear(c) == /\ c \in Cells
                        /\ feat_is_traversable(tr.pre.grd[c]) \/ tr.pre.grd[c] = "shallow_water"
                        /\ ~feat_is_solid(tr.pre.grd[c])
                        /\ c \notin env.trans_blocked
        IN /\ new = Add(old, tr.arg) /\ new # old /\ new \in Cells
           /\ tr.pre.mons[new] = NoMon
           /\ tr.pre.grd[new] \notin {"lava", "deep_water", "toxic_bog"}
           /\ ~feat_is_solid(tr.pre.grd[new])
           /\ new \notin env.trans_blocked
           /\ tr.valid_target = Add(old, Mul(tr.arg, dist))
           /\ dist >= 2
           /\ \A k \in 1..(dist - 1) : Clear(Add(old, Mul(tr.arg, k)))

\* A lunge succeeded towards a target three cells away across shallow water.
C7_Witness ==
    /\ pc = "done" /\ tr.lunge = "success"
    /\ grid_distance(tr.lunge_pre.pos, tr.valid_target) = 3
    /\ \E c \in Cells : tr.pre.grd[c] = "shallow_water"
                        /\ grid_distance(c, tr.valid_target) = 1
                        /\ grid_distance(c, tr.lunge_pre.pos) = 2

\* The start state of the lunge-then-attack scenario: a player with the
\* lunge ability and none of the statuses that prevent a lunge, a visible
\* hostile monster that is not firewood exactly two cells away along the
\* requested direction, plain floor with no occupant in between, and no
\* prompt declined; nor is the player held, stopped in a run or repeating a
\* command, nor the level a sanctuary, nor any monster a beholder or a
\* fearmonger.
LungeScenario ==
    LET pos == tr.pre.you.pos
        mid == Add(pos, tr.arg)
        far == Add(pos, Mul(tr.arg, 2))
    IN /\ pc = "done" /\ tr.call = "move_player_action"
       /\ tr.pre.you.lunging
       /\ ~tr.pre.you.nervous /\ ~tr.pre.you.confused
       /\ ~tr.pre.you.stationary /\ ~tr.pre.you.constricted
       /\ ~tr.pre.you.held /\ ~tr.inp.run_stop /\ ~tr.pre.repeating
       /\ far \in Cells
       /\ tr.pre.mons[far] = "hostile" /\ tr.pre.grd[far] = "floor"
       /\ tr.pre.mons[mid] = NoMon /\ tr.pre.grd[mid] = "floor"
       /\ env.sanctuary = {} /\ env.trans_blocked = {}
       /\ \A c \in Cells : tr.pre.mons[c] \notin {"beholder", "fearmonger"}
       /\ tr.inp.decline = "none"

\* C8: in the lunge-then-attack scenario one call of move_player_action
\* first moves the player onto the intermediate cell and then attacks the
\* monster in the same call, ending the turn.
C8_LungeThenAttack ==
    LungeScenario =>
        /\ tr.lunge = "success"
        /\ tr.lunge_post.pos = Add(tr.pre.you.pos, tr.arg)
        /\ tr.fought = Add(tr.pre.you.pos, Mul(tr.arg, 2))
        /\ you.pos = Add(tr.pre.you.pos, tr.arg)
        /\ you.turn_is_over
        /\ tr.ret = "end"

\* The scenario where the assertion of line 524 holds: there the lunge and
\* the attack do happen in the same call.
C8_LungeThenAttackWhereAsserted ==
    LungeScenario /\ lunge_assertion(tr.pre.you.pos, tr.arg) =>
        /\ tr.lunge = "success"
        /\ tr.fought = Add(tr.pre.you.pos, Mul(tr.arg, 2))
        /\ you.pos = Add(tr.pre.you.pos, tr.arg)
        /\ you.turn_is_over
        /\ tr.ret = "end"

\* The scenario at a cell where the assertion of line 524 fails.
C8_ScenarioAtCorner ==
    LungeScenario /\ ~lunge_assertion(tr.pre.you.pos, tr.arg) /\ tr.ret = "crash"

\* C9: if the player declines either lunge confirmation (check_moveto or
\* the barbed-skin prompt inside _lunge_forward), move_player_action aborts
\* the whole action: the player is not repositioned, no follow-up walk, swap
\* or attack is attempted, and no door or portal action runs.
C9_DeclinedLungeAbortsAll ==
    pc = "done" /\ tr.lunge = "abort" =>
        /\ tr.ret = "lunge_abort"
        /\ tr.inp.decline \in {"moveto_lunge", "barbs"}
        /\ you.pos = tr.pre.you.pos
        /\ ~tr.lunged /\ tr.targ = NoCell
        /\ ~tr.walked /\ ~tr.swapped /\ tr.fought = NoCell
        /\ ~tr.door_action /\ ~tr.portal
        /\ grd = tr.pre.grd /\ mons = tr.pre.mons

\* The barbed-skin prompt of the lunge was declined.
C9_Witness ==
    pc = "done" /\ tr.lunge = "abort" /\ tr.inp.decline = "barbs"

\* C10 as stated: when a lunge confirmation is declined, move_player_action
\* still finalizes the turn: the move time cost is applied, the turn is
\* marked over and the post-move triggers run.
C10_AbortFinalizes ==
    pc = "done" /\ tr.lunge = "abort" =>
        /\ tr.finalized /\ tr.applied >= 1
        /\ you.turn_is_over
        /\ \E i \in 1..Len(tr.events) : tr.events[i] = "post_move_effects"

\* C10, amended: when a lunge confirmation is declined, move_player_action
\* returns at once without finalizing: no move time cost is applied, the
\* turn is not marked over and no post-move trigger runs.  The turn is
\* finalized (_finalize_cancelled_lunge_move) only after a successful lunge
\* whose follow-up move is cancelled by a run stop or a declined check_moveto.
C10_AbortDoesNotFinalize ==
    /\ pc = "done" /\ tr.lunge = "abort" =>
        /\ ~tr.finalized /\ tr.applied = 0
        /\ you.turn_is_over = tr.pre.you.turn_is_over /\ ~you.turn_is_over
        /\ you.time_taken = tr.pre.you.time_taken
        /\ tr.events = << >> /\ ~tr.epilogue
    /\ pc = "done" /\ tr.finalized =>
        /\ tr.lunge = "success"
        /\ tr.ret \in {"run_stopped", "unseen_cancel", "moveto_cancel"}
        /\ tr.applied = 1 /\ you.turn_is_over

\* The check_moveto prompt of the lunge was declined.
C10_Witness ==
    pc = "done" /\ tr.lunge = "abort" /\ tr.inp.decline = "moveto_lunge"

(***************************************************************************)
(* The walk, the time of a step and the dig.                               *)
(***************************************************************************)
\* The state the call started from, as the operators on a working state
\* read it, and the cell the requested direction leads to from there.
PreState == [you |-> tr.pre.you, grd |-> tr.pre.grd, mons |-> tr.pre.mons, env |-> env]
WalkTarget == Add(tr.pre.you.pos, tr.arg)
Called == pc = "done" /\ tr.call = "move_player_action"
\* The least whole time that covers 100 / travel_speed, for a running
\* player with a travel speed; 0 otherwise.
RunFloor(y) ==
    IF y.running # "none" /\ y.travel_speed # 0
    THEN CHOOSE n \in 0..100 : n * y.travel_speed >= 100 /\ (n - 1) * y.travel_speed < 100
    ELSE 0
\* t is x / 10 rounded to one of the two neighbouring integers.
RoundedTenth(t, x) == 10 * t > x - 10 /\ 10 * t < x + 10

\* The step of C11: the player is not held, confused, stationary, digging
\* or constricted, no beholder or fearmonger restrains the step, the
\* destination is in bounds, passable and free, every prompt is accepted and
\* the run is not stopped.
C11_FreeStep ==
    /\ Called
    /\ ~tr.pre.you.held /\ ~tr.pre.you.confused /\ ~tr.pre.you.stationary
    /\ ~tr.pre.you.digging /\ ~tr.pre.you.constricted
    /\ ~get_beholder(PreState, WalkTarget) /\ ~get_fearmonger(PreState, WalkTarget)
    /\ in_bounds(WalkTarget) /\ can_pass_through(PreState, WalkTarget)
    /\ monster_at(PreState, WalkTarget) = NoMon
    /\ tr.inp.decline = "none" /\ ~tr.inp.run_stop

\* C11 as stated: a free step is a walk: the player stands on the
\* destination, the turn is over and you.time_taken is the previous
\* time_taken times player_movement_speed / 10, rounded to a neighbouring
\* integer, plus nothing.
C11_FreeStepWalks ==
    C11_FreeStep =>
        /\ you.pos = WalkTarget
        /\ you.turn_is_over
        /\ RoundedTenth(you.time_taken, tr.pre.you.time_taken * tr.pre.you.movement_speed)

\* C11, amended: a free step of a player who has not the lunge ability and
\* is not a nervous fungus is a walk: the player stands on the destination,
\* the turn is over and you.time_taken is the previous time_taken times
\* player_movement_speed / 10, rounded to a neighbouring integer, or the
\* floor of a running player if that is greater.
C11_FreeStepWalksAmended ==
    (C11_FreeStep /\ ~tr.pre.you.lunging /\ ~(tr.pre.you.fungus /\ tr.pre.you.nervous)) =>
        /\ you.pos = WalkTarget
        /\ you.turn_is_over
        /\ tr.applied = 1
        /\ RoundedTenth(tr.unfloored, tr.pre.you.time_taken * tr.pre.you.movement_speed)
        /\ you.time_taken = Max(tr.unfloored, RunFloor(tr.pre.you))

\* A hasted and slow-moving player walks: 7 * 14 / 10 is rounded up to 10.
C11_Witness ==
    /\ C11_FreeStep /\ ~tr.pre.you.lunging
    /\ tr.pre.you.time_taken = 7 /\ tr.pre.you.movement_speed = 14
    /\ tr.walked /\ you.pos = WalkTarget /\ you.time_taken = 10

\* C12: when _apply_move_time_taken has run for a player who is running
\* with a travel speed (a run the call stopped before is no run), then
\* you.time_taken is at least 100 / travel_speed rounded up; for a player
\* who is not running, or runs without a travel speed, you.time_taken is
\* the scaled time plus the additional time and nothing more.
C12_RunningFloor ==
    (Called /\ tr.ret # "crash" /\ tr.applied > 0) =>
        IF you.running # "none" /\ you.travel_speed # 0
        THEN /\ you.time_taken >= RunFloor(you)
             /\ you.time_taken \in {tr.unfloored, RunFloor(you)}
        ELSE you.time_taken = tr.unfloored

\* A running player walks at travel speed 6: the step takes 17, not 10.
C12_Witness ==
    /\ Called /\ tr.walked /\ tr.applied = 1
    /\ tr.pre.you.running # "none" /\ tr.pre.you.travel_speed = 6
    /\ tr.unfloored = 10 /\ you.time_taken = 17

\* The dig of C13: a player with the digging flag set moves toward a
\* diggable wall cell.
C13_Dig ==
    /\ Called
    /\ tr.pre.you.digging
    /\ in_bounds(WalkTarget) /\ feat_is_diggable(tr.pre.grd[WalkTarget])
\* No prompt of the call is declined, the run is not stopped, a constricted
\* player escapes and a confused player keeps the requested direction.
C13_Unhindered ==
    /\ tr.inp.decline = "none" /\ ~tr.inp.run_stop /\ tr.inp.escape
    /\ tr.inp.rnd = Keep
\* The wall is floor, the player stands on it, one noise was made and the
\* time of the step includes BASELINE_DELAY / 5.
C13_Dug ==
    /\ grd[WalkTarget] = "floor"
    /\ you.pos = WalkTarget
    /\ tr.noise = 1
    /\ tr.applied = 1
    /\ RoundedTenth(tr.unfloored - BASELINE_DELAY \div 5,
                    tr.pre.you.time_taken * tr.pre.you.movement_speed)
    /\ you.time_taken = Max(tr.unfloored, RunFloor(tr.pre.you))

\* C13 as stated: every unhindered dig, whatever the state of the player,
\* a confused player included, turns the wall into floor, moves the player
\* onto it, makes exactly one noise and costs BASELINE_DELAY / 5 more.
C13_DigAlwaysDigs == (C13_Dig /\ C13_Unhindered) => C13_Dug

\* C13, amended: the same for a player who is not confused (a confused
\* digger bumps into the wall, lines 808-829), not held, not a nervous
\* fungus, not restrained by a beholder or a fearmonger, and has not the
\* lunge ability.
C13_DigDigsUnlessConfused ==
    (/\ C13_Dig /\ C13_Unhindered
     /\ ~tr.pre.you.confused /\ ~tr.pre.you.held /\ ~tr.pre.you.lunging
     /\ ~(tr.pre.you.fungus /\ tr.pre.you.nervous)
     /\ ~get_beholder(PreState, WalkTarget) /\ ~get_fearmonger(PreState, WalkTarget))
    => C13_Dug

\* A digger walks into rock: the wall is gone and the step took 10 + 2.
C13_Witness ==
    /\ C13_Dig /\ C13_Unhindered /\ ~tr.pre.you.confused /\ ~tr.pre.you.lunging
    /\ tr.dug /\ tr.walked /\ C13_Dug /\ you.time_taken = 12
    /\ tr.pre.grd[WalkTarget] = "rock_wall"

(***************************************************************************)
(* The confusion gate and the net.                                         *)
(***************************************************************************)
\* C14: when a confused player declines the prompt of cancel_confused_move
\* the call returns at once: the position, you.time_taken and
\* you.turn_is_over, and with them the whole of the player, the grid and
\* the monsters, are what they were, the direction is the requested one and
\* no random direction was drawn.
C14_DeclinedConfusedMove ==
    (Called /\ tr.pre.you.confused /\ tr.inp.decline = "confuse") =>
        /\ tr.ret = "confused_cancel"
        /\ you.pos = tr.pre.you.pos
        /\ you.time_taken = tr.pre.you.time_taken
        /\ you.turn_is_over = tr.pre.you.turn_is_over
        /\ you = tr.pre.you /\ grd = tr.pre.grd /\ mons = tr.pre.mons
        /\ tr.move = tr.arg
        /\ "rnd" \notin tr.asked
        /\ tr.events = << >>

\* A confused player whose form is expiring declines to stumble around
\* next to lava.
C14_Witness ==
    /\ Called /\ tr.pre.you.confused /\ tr.inp.decline = "confuse"
    /\ "prompt_lava" \in tr.msgs
    /\ tr.ret = "confused_cancel" /\ you = tr.pre.you

\* The call ended in a declined confirmation or a stopped run.
Declined == Called /\ tr.ret # "crash" /\ (tr.inp.decline # "none" \/ tr.ret = "run_stopped")

\* C15: on every path that ends in a declined confirmation (check_moveto,
\* barbed skin, confusion, portal) or in a stopped run, the position,
\* you.time_taken, the digging flag and the barbed-move flag of the player
\* are what they were before the call: neither the plant slow-down nor the
\* clearing of the digging flag has happened.
C15_NothingChangedBeforeDecline ==
    Declined =>
        /\ you.pos = tr.pre.you.pos
        /\ you.time_taken = tr.pre.you.time_taken
        /\ you.digging = tr.pre.you.digging
        /\ you.barbs_move_key = tr.pre.you.barbs_move_key

\* C16: a player held in a net makes one attempt to free itself, the turn
\* is over and the call returns at once: the position is unchanged and
\* there is no confusion gate, lunge, attack, swap, walk or door action.
C16_HeldOnlyEscapes ==
    (Called /\ tr.pre.you.held) =>
        /\ tr.ret = "held"
        /\ tr.net
        /\ tr.events = <<"free_self_from_net">>
        /\ you.turn_is_over
        /\ you = [tr.pre.you EXCEPT !.turn_is_over = TRUE]
        /\ grd = tr.pre.grd /\ mons = tr.pre.mons
        /\ tr.asked = {} /\ tr.msgs = {}
        /\ tr.lunge = "none" /\ tr.fought = NoCell
        /\ ~tr.swapped /\ ~tr.walked /\ ~tr.dug /\ ~tr.door /\ ~tr.door_action
        /\ tr.applied = 0

\* A held, confused player next to a monster it would otherwise be asked
\* about, or a held player with the lunge ability.
C16_Witness ==
    /\ Called /\ tr.pre.you.held /\ tr.net /\ you.turn_is_over
    /\ tr.pre.you.confused \/ tr.pre.you.lunging
    /\ \E c \in Cells : tr.pre.mons[c] # NoMon

\* C17: when the direction drawn for a confused player is the zero vector
\* the turn ends: you.turn_is_over is set, the position is unchanged and
\* there is no lunge, attack, swap or walk.  The direction a confused
\* player ends up with is always one of the nine offsets of {-1, 0, 1}^2.
C17_TooConfusedToMove ==
    /\ (Called /\ tr.pre.you.confused /\ "rnd" \in tr.asked /\ tr.inp.rnd = origin) =>
          /\ tr.ret = "too_confused"
          /\ you.turn_is_over
          /\ you.pos = tr.pre.you.pos
          /\ grd = tr.pre.grd /\ mons = tr.pre.mons
          /\ tr.lunge = "none" /\ tr.fought = NoCell
          /\ ~tr.swapped /\ ~tr.walked /\ ~tr.dug
          /\ tr.applied = 0
    /\ (Called /\ tr.pre.you.confused /\ "rnd" \in tr.asked) =>
          /\ tr.inp.rnd \in Offsets \cup {Keep}
          /\ tr.move \in Offsets
          /\ (tr.lunge = "none" /\ tr.targ # NoCell) =>
                 Sub(tr.targ, tr.pre.you.pos) \in Offsets

\* A confused player draws the zero vector and stays where it is.
C17_Witness ==
    /\ Called /\ tr.pre.you.confused /\ "rnd" \in tr.asked /\ tr.inp.rnd = origin
    /\ tr.ret = "too_confused" /\ you.turn_is_over /\ you.pos = tr.pre.you.pos
    /\ "too_confused_to_move" \in tr.msgs

(***************************************************************************)
(* The stationary player, the swap and the doors.                          *)
(***************************************************************************)
\* A hostile monster the player can see and reach stands on the destination.
HostileAtTarget ==
    /\ in_bounds(WalkTarget)
    /\ Info(monster_at(PreState, WalkTarget)).att = "hostile"
    /\ can_see(monster_at(PreState, WalkTarget))
    /\ ~Info(monster_at(PreState, WalkTarget)).submerged

\* The attack half of C18: a stationary player that is neither held nor
\* confused attacks the hostile monster on the destination and stays (in a
\* sanctuary the monster is asked to swap instead, line 915; the assertion
\* of line 524 can end the call of a player with the lunge ability first).
StationaryStillAttacks ==
    (/\ Called /\ tr.ret # "crash" /\ tr.pre.you.stationary /\ HostileAtTarget
     /\ ~tr.pre.you.held /\ ~tr.pre.you.confused
     /\ ~(is_sanctuary(PreState, tr.pre.you.pos) /\ is_sanctuary(PreState, WalkTarget))) =>
        /\ tr.fought = WalkTarget
        /\ you.pos = tr.pre.you.pos

\* C18: for a stationary player move_player_action never changes the
\* position, whatever the direction, the terrain and the other flags of
\* the player, the digging flag included, while a hostile monster on the
\* destination is still attacked.
C18_StationaryNeverMoves ==
    /\ (Called /\ tr.pre.you.stationary) => you.pos = tr.pre.you.pos
    /\ StationaryStillAttacks

\* The places of event e in the record of the call.
At(e) == {k \in DOMAIN tr.events : tr.events[k] = e}

\* C19: in a swap the occupant is first put on its swap destination
\* (_swap_places, no location effects), then the player is moved onto the
\* target (move_player_to_grid, with the player's own location effects),
\* and only then the occupant's location effects are applied: once, never
\* before the player has moved, and never before the occupant was put down.
C19_SwapOrder ==
    (Called /\ tr.ret # "crash") =>
        /\ \A k \in At("apply_location_effects") :
              /\ tr.swap
              /\ At("apply_location_effects") = {k}
              /\ \E j \in At("move_player_to_grid") :
                    /\ j < k
                    /\ \A i \in At("swap_places") : i < j
                    /\ tr.events[j + 1] = "apply_location_effects"
        /\ At("swap_places") # {} =>
              /\ At("apply_location_effects") # {}
              /\ you.pos = tr.targ
              /\ mons[tr.mon_swap_dest] = tr.targ_monst
              /\ mons[tr.targ] = NoMon

\* The player swaps places with a friendly monster.
C19_Witness ==
    /\ Called /\ tr.swapped /\ "you_swap_places" \in tr.msgs
    /\ tr.events = <<"swap_places", "move_player_to_grid", "apply_location_effects",
                     "post_move_effects">>
    /\ friendly(tr.targ_monst)
    /\ you.pos = tr.targ /\ mons[tr.mon_swap_dest] = tr.targ_monst

\* The features of the eight cells around the player before the call.
AdjacentFeats == {GrdAt(tr.pre.grd, Add(tr.pre.you.pos, d)) : d \in Compass}
\* A door action was called without a direction by a player that is
\* neither held nor confused.
DoorCalled(call) ==
    /\ pc = "done" /\ tr.call = call /\ tr.arg = origin
    /\ ~tr.pre.you.held /\ ~tr.pre.you.confused

\* C20: open_door_action (close_door_action) called without a direction by
\* a player that is neither held nor confused, with no closed or runed
\* (no open) door on an adjacent cell, says that there is nothing to open
\* (to close) nearby, asks for no direction, and leaves the turn, the time,
\* the rest of the player and every cell of the grid as they were.
C20_NothingNearby ==
    /\ (DoorCalled("open_door_action")
        /\ AdjacentFeats \cap {"closed_door", "runed_door"} = {}) =>
          /\ tr.ret = "nothing_nearby"
          /\ tr.msgs = {"nothing_to_open_nearby"}
          /\ "compass" \notin tr.asked
          /\ you.turn_is_over = tr.pre.you.turn_is_over
          /\ you.time_taken = tr.pre.you.time_taken
          /\ you = tr.pre.you /\ grd = tr.pre.grd /\ mons = tr.pre.mons
    /\ (DoorCalled("close_door_action") /\ "open_door" \notin AdjacentFeats) =>
          /\ tr.ret = "nothing_nearby"
          /\ tr.msgs = {"nothing_to_close_nearby"}
          /\ "compass" \notin tr.asked
          /\ you.turn_is_over = tr.pre.you.turn_is_over
          /\ you.time_taken = tr.pre.you.time_taken
          /\ you = tr.pre.you /\ grd = tr.pre.grd /\ mons = tr.pre.mons

\* The player asks to open a door with only an open door next to it.
C20_Witness ==
    /\ DoorCalled("open_door_action")
    /\ "open_door" \in AdjacentFeats
    /\ AdjacentFeats \cap {"closed_door", "runed_door"} = {}
    /\ tr.msgs = {"nothing_to_open_nearby"}

\* A door action has returned, and the cell its direction names.
DoorDone(call) == pc = "done" /\ tr.call = call
DoorPos == Add(tr.pre.you.pos, IF tr.arg # origin THEN tr.arg ELSE tr.inp.compass)

\* C21: when a confused player calls open_door_action toward a door that
\* the map keeps shut (door_vetoed), the turn is consumed.
C21_ConfusedVetoUsesTurn ==
    (/\ DoorDone("open_door_action")
     /\ tr.pre.you.confused
     /\ tr.arg # origin
     /\ door_vetoed(PreState, DoorPos)
     /\ feat_is_closed_door(GrdAt(tr.pre.grd, DoorPos))) => you.turn_is_over

\* The cell a door action chose is one player_open_door (player_close_door)
\* is called on: lines 371-398 and 464-468.
OpenTarget ==
    /\ in_bounds(tr.doorpos)
    /\ ~door_vetoed(PreState, tr.doorpos)
    /\ tr.pre.grd[tr.doorpos] \in {"closed_door", "runed_door"}
CloseTarget == in_bounds(tr.doorpos) /\ tr.pre.grd[tr.doorpos] = "open_door"

\* C22: open_door_action changes cells only when the chosen cell is in
\* bounds, not vetoed and a closed or runed door; for any other chosen cell
\* it only emits a message and leaves every cell as it was. close_door_action
\* likewise changes cells only when the chosen cell is an open door.
C22_DoorsChangeOnlyDoors ==
    /\ DoorDone("open_door_action") =>
          /\ (grd # tr.pre.grd \/ tr.door) => (tr.door_chosen /\ OpenTarget)
          /\ (tr.door_chosen /\ ~OpenTarget) =>
                (grd = tr.pre.grd /\ mons = tr.pre.mons /\ tr.msgs # {})
    /\ DoorDone("close_door_action") =>
          /\ (grd # tr.pre.grd \/ tr.door) => (tr.door_chosen /\ CloseTarget)
          /\ (tr.door_chosen /\ ~CloseTarget) =>
                (grd = tr.pre.grd /\ mons = tr.pre.mons /\ tr.msgs # {})
C22_Witness ==
    /\ DoorDone("open_door_action")
    /\ tr.door_chosen
    /\ in_bounds(tr.doorpos)
    /\ tr.pre.grd[tr.doorpos] = "sealed_door"
    /\ tr.ret = "sealed"
    /\ grd = tr.pre.grd

\* The cells cancel_confused_move scans around the player that hold lava.
AdjacentLava ==
    {i \in 1..Len(AdjOrder) : GrdAt(tr.pre.grd, Add(tr.pre.you.pos, AdjOrder[i])) = "lava"}
\* cancel_confused_move(false) ran in this call: lines 767-789.
ConfusedScanned ==
    Called /\ ~tr.pre.you.held /\ tr.pre.you.confused /\ ~tr.pre.you.stationary

\* C23: in cancel_confused_move for a player that is not stationary, lava
\* has priority: whenever an adjacent cell is lava that qualifies for the
\* expiration warning, the confirmation prompt names lava, whatever the
\* scan order and whether or not deep water is met first.
C23_LavaHasPriority ==
    (ConfusedScanned /\ tr.pre.you.expiring /\ AdjacentLava # {}) =>
        "prompt_lava" \in tr.msgs

\* _lunge_forward was entered with the direction the caller passed: the
\* player has the lunge ability and neither the net nor confusion came first.
LungeEntered ==
    Called /\ tr.lunge # "none" /\ ~tr.pre.you.confused /\ tr.lunge_pre.pos = tr.pre.you.pos

\* C24: the assertion at the start of _lunge_forward holds for every
\* in-bounds position of the player, the cells near (1,1) included, with
\* every direction whose components are in [-1,1].
C24_AssertionHoldsInBounds ==
    (LungeEntered /\ in_bounds(tr.pre.you.pos) /\ tr.arg \in Offsets) =>
        lunge_assertion(tr.pre.you.pos, tr.arg)

\* The follow-up move of a successful lunge was cancelled: by a run stop
\* (932-944), by a declined prompt before attacking an unseen occupant
\* (972-986) or by a declined prompt before walking (1019-1031).
LungeMoveCancelled ==
    /\ Called /\ tr.lunge = "success"
    /\ tr.ret \in {"run_stopped", "unseen_cancel", "moveto_cancel"}

\* C25: when _lunge_forward succeeded and the follow-up move is cancelled
\* by a run stop or by a declined check_moveto prompt, the call goes through
\* _finalize_cancelled_lunge_move: the turn is over and the move time is
\* applied exactly once, so the reposition of the lunge is paid for.
C25_CancelledLungeMoveIsPaid ==
    LungeMoveCancelled =>
        /\ tr.finalized
        /\ you.turn_is_over
        /\ tr.applied = 1
        /\ you.pos = tr.lunge_post.pos
        /\ you.pos # tr.pre.you.pos
C25_Witness ==
    /\ LungeMoveCancelled /\ tr.ret = "moveto_cancel"
    /\ tr.finalized /\ you.turn_is_over /\ tr.applied = 1
    /\ you.pos = Add(tr.pre.you.pos, tr.arg)

\* C26: within one call of move_player_action _apply_move_time_taken runs
\* at most once, on every path: a successful lunge followed by a walk and a
\* successful lunge followed by a cancelled move included.  It runs exactly
\* when the move was committed or a cancelled lunge move was finalized.
C26_MoveTimeAppliedOnce ==
    Called =>
        /\ tr.applied <= 1
        /\ tr.applied = 1 <=> (tr.finalized \/ tr.walked)
C26_Witness ==
    /\ Called /\ tr.lunge = "success" /\ tr.walked /\ ~tr.finalized
    /\ you.pos = Add(tr.pre.you.pos, Mul(tr.arg, 2))
    /\ tr.applied = 1

\* The monster sharing the player's cell after the call, if it is neither
\* a plant the player passes through nor submerged.
Cohabitant ==
    /\ mons[you.pos] # NoMon
    /\ ~fedhas_passthrough(mons[you.pos])
    /\ ~Info(mons[you.pos]).submerged

\* C27: after a call of move_player_action the player never stands on a
\* cell still occupied by a monster other than a passthrough plant or a
\* submerged monster; in particular not when _swap_places declined the swap
\* because the occupant's destination was taken.
C27_NoSharedCell ==
    (Called /\ tr.ret # "crash") => ~Cohabitant

\* A confused player got past the prompts of the confusion gate, and the
\* direction then resolved (lines 795-806): the drawn one, or the requested.
ConfusedResolved ==
    /\ Called /\ tr.pre.you.confused /\ ~tr.pre.you.held /\ ~tr.pre.you.stationary
    /\ "rnd" \in tr.asked /\ tr.inp.rnd # origin
ResolvedMove == IF tr.inp.rnd # Keep THEN tr.inp.rnd ELSE tr.arg
ResolvedTarget == Add(tr.pre.you.pos, ResolvedMove)
Impassable(c) == ~in_bounds(c) \/ ~can_pass_through(PreState, c)

\* The player stays put and the turn is over.
TurnSpentInPlace == you.pos = tr.pre.you.pos /\ you.turn_is_over

\* C28: a confused player is never moved onto a dangerous cell: when the
\* resolved destination is dangerous the call ends the turn with the
\* 'nearly stumble' message and the position unchanged; when it is out of
\* bounds or impassable the call ends the turn with a bump, the position
\* unchanged and the digging flag cleared.
C28_ConfusedNeverStumblesIn ==
    /\ (Called /\ tr.pre.you.confused /\ you.pos # tr.pre.you.pos) =>
           ~is_feat_dangerous(grd[you.pos])
    /\ (ConfusedResolved /\ ResolvedMove # origin /\ ~Impassable(ResolvedTarget)
          /\ is_feat_dangerous(tr.pre.grd[ResolvedTarget])) =>
           (TurnSpentInPlace /\ tr.ret = "stumble" /\ "nearly_stumble" \in tr.msgs)
    /\ (ConfusedResolved /\ Impassable(ResolvedTarget)) =>
           (TurnSpentInPlace /\ tr.ret = "bump" /\ ~you.digging)

\* The resolved destination holds no monster the player would attack or
\* swap with: none, a plant the player passes through, or a submerged one.
NoOccupantAtResolved ==
    \/ tr.pre.mons[ResolvedTarget] = NoMon
    \/ fedhas_passthrough(tr.pre.mons[ResolvedTarget])
    \/ Info(tr.pre.mons[ResolvedTarget]).submerged

\* C28, amended: a confused player is never moved onto a dangerous cell.
\* The 'nearly stumble' ending is that of a dangerous destination without an
\* occupant to attack or swap with, when the run is not stopped first and
\* the call is not stopped at the assertion of _lunge_forward; the bump is as
\* stated.
C28_ConfusedStumblesOrFights ==
    /\ (Called /\ tr.pre.you.confused /\ you.pos # tr.pre.you.pos) =>
           ~is_feat_dangerous(grd[you.pos])
    /\ (ConfusedResolved /\ ResolvedMove # origin /\ ~Impassable(ResolvedTarget)
          /\ is_feat_dangerous(tr.pre.grd[ResolvedTarget])
          /\ NoOccupantAtResolved
          /\ tr.ret \notin {"run_stopped", "crash"}) =>
           (TurnSpentInPlace /\ tr.ret = "stumble" /\ "nearly_stumble" \in tr.msgs)
    /\ (ConfusedResolved /\ Impassable(ResolvedTarget)) =>
           (TurnSpentInPlace /\ tr.ret = "bump" /\ ~you.digging)
\* A confused player drawn toward deep water nearly stumbles into it.
C28_Witness ==
    /\ ConfusedResolved /\ tr.inp.rnd # Keep
    /\ in_bounds(ResolvedTarget)
    /\ tr.pre.grd[ResolvedTarget] = "deep_water"
    /\ tr.ret = "stumble" /\ "nearly_stumble" \in tr.msgs
    /\ TurnSpentInPlace

\* C29: the epilogue of move_player_action (lines 1144-1166) executes only
\* in calls that consumed the turn; in particular not after a swap that was
\* tried and failed swap_check, which leaves the player in place with
\* turn_is_over not set.
C29_EpilogueOnlyAfterTurn ==
    (Called /\ tr.epilogue) => you.turn_is_over
====
